---- MODULE Spec2Model ----
(***************************************************************************)
(* ReplayBot (addons/source-python/plugins/replay_bot/replay_bot.py).      *)
(*                                                                         *)
(* The module-level RecordingManager `recording_mgr`, its two registries   *)
(* (the class-level dicts `recorders` and `players`), the Recording        *)
(* objects, and the host's player slots.  Objects are reached the way the  *)
(* plugin reaches them: Recorders and Players through the registries,      *)
(* Recordings through the manager's list, a Recorder or a Player.          *)
(*                                                                         *)
(* Every method is an operator from a machine state S to the machine state *)
(* after the call; S.err holds the exception that is propagating, if any,  *)
(* S.ret what the call returns and S.calls the calls it made to the host.  *)
(* An action is one call made by the host or by a user of the module.      *)
(***************************************************************************)
EXTENDS Integers, Sequences, FiniteSets, TLC

\* ---------------------------------------------------------------- bounds
MaxIdx == 2          \* player slots of the host
MaxRecordings == 2   \* Recording objects alive at one time
MaxLen == 2          \* snapshots held by one Recording

\* ------------------------------------------------------- program constants
PlayerState_PAUSED == 0
PlayerState_PLAYING == 1
PlayerState_STOPPED == 2
RecorderState_PAUSED == 0
RecorderState_RECORDING == 1
RecorderState_STOPPED == 2
AdjustDistanceSqr == 2500

None == 0            \* Python's None, where a reference or an index is expected

Idx == 1..MaxIdx
Clients == {1, 2}    \* the slots taken by human clients when the plugin loads

\* What the host reports for a recorded player at frame n of a recording: the
\* player walks along one axis and its user commands are numbered (angles and
\* velocity are carried exactly like origin).
PlayerView(n) ==
    [origin |-> 10 * n,
     ucmd |-> [command_number |-> n + 1, buttons |-> n % 2, forward_move |-> 450]]
\* Where the host's physics has put a replay bot when it is driven.
BotOrigins == {0, 50, 51, 60, 61}

VARIABLES
    entity,      \* host: slot -> "free" | "client" | "bot"
    recordings,  \* heap of Recording objects: id -> sequence of Snapshots
    mgr,         \* recording_mgr as a list: sequence of Recording ids
    recorders,   \* RecordingManager.recorders: dict in insertion order
    players,     \* RecordingManager.players: dict in insertion order
    hist         \* history, kept only where a specification asks for it

vars == <<entity, recordings, mgr, recorders, players, hist>>

\* ------------------------------------------------------------ Python dict
\* A dict is a sequence of entries with distinct .index, in insertion order.
Keys(d) == { d[k].index : k \in 1..Len(d) }
Has(d, i) == i \in Keys(d)
Pos(d, i) == CHOOSE k \in 1..Len(d) : d[k].index = i
Get(d, i) == d[Pos(d, i)]
\* d[i] = v : an existing key keeps its place, a new key goes last.
Put(d, v) ==
    IF Has(d, v.index) THEN [d EXCEPT ![Pos(d, v.index)] = v] ELSE Append(d, v)
\* del d[i]
Del(d, i) == SelectSeq(d, LAMBDA e : e.index # i)

\* ------------------------------------------------------------ Python list
\* list.__eq__ on two Recordings: same length and pairwise equal Snapshots.
\* Snapshot defines no __eq__, so Snapshots are equal only when identical,
\* and every Snapshot object is held by exactly one Recording.
\* The Snapshot at place k of Recording a is the object at place j of b.
Snapshot_is(a, k, b, j) == a = b /\ k = j
Recording_eq(recs, a, b) ==
    \/ a = b
    \/ /\ Len(recs[a]) = Len(recs[b])
       /\ \A k \in 1..Len(recs[a]) : Snapshot_is(a, k, b, k)
\* x in list
Contains(recs, l, r) == \E k \in 1..Len(l) : Recording_eq(recs, l[k], r)
\* list.remove(x): drops the first equal element
FirstEq(recs, l, r) ==
    CHOOSE k \in 1..Len(l) :
        /\ Recording_eq(recs, l[k], r)
        /\ \A j \in 1..(k-1) : ~Recording_eq(recs, l[j], r)
RemoveAt(l, k) == SubSeq(l, 1, k-1) \o SubSeq(l, k+1, Len(l))

\* ----------------------------------------------------------- machine state
Machine ==
    [entity |-> entity, recordings |-> recordings, mgr |-> mgr,
     recorders |-> recorders, players |-> players, hist |-> hist,
     err |-> "", ret |-> None, calls |-> <<>>]
Raise(S, e) == [S EXCEPT !.err = e]
Ok(S) == S.err = ""
HostCall(S, fn, i, data) ==
    [S EXCEPT !.calls = Append(@, [fn |-> fn, index |-> i, data |-> data])]
\* The Recording objects something still refers to; the others are garbage,
\* which Python frees: their ids can be handed out again.
Reachable(S) ==
    ({ S.mgr[k] : k \in 1..Len(S.mgr) }
       \cup { S.recorders[k].recording : k \in 1..Len(S.recorders) }
       \cup { S.players[k].recording : k \in 1..Len(S.players) }) \ {None}
FreeIds(S) == { r \in 1..Len(S.recordings) : r \notin Reachable(S) }
RECURSIVE Trim(_, _)
Trim(heap, live) ==
    IF Len(heap) > 0 /\ Len(heap) \notin live
    THEN Trim(SubSeq(heap, 1, Len(heap) - 1), live)
    ELSE heap
Collect(S) ==
    Trim([r \in 1..Len(S.recordings) |->
            IF r \in Reachable(S) THEN S.recordings[r] ELSE <<>>], Reachable(S))
\* ----------------------------------------------------------------- history
\* hist.keep says which history is kept: "none", "runs" or "unsaved".
\* Under "runs", hist.run[i] is, for the Player of bot i, the length n its
\* recording had at its last start() (0 before the first start() and after a
\* stop()) and the numbers of the commands its controller has run since (one
\* more than n are kept at most).  Under "unsaved", hist.unsaved holds the
\* Recordings whose Recorder was stopped with save=False.
NoRun == [n |-> 0, cmds |-> <<>>]
NoHistory(keep) == [keep |-> keep, run |-> [i \in Idx |-> NoRun], unsaved |-> {}]
NoteStart(S, i, n) ==
    IF S.hist.keep = "runs"
    THEN [S EXCEPT !.hist.run[i] = [n |-> n, cmds |-> <<>>]] ELSE S
NoteStop(S, i) ==
    IF S.hist.keep = "runs" THEN [S EXCEPT !.hist.run[i] = NoRun] ELSE S
NoteCommand(S, i, bcmd) ==
    IF /\ S.hist.keep = "runs"
       /\ S.hist.run[i].n > 0
       /\ Len(S.hist.run[i].cmds) <= S.hist.run[i].n
    THEN [S EXCEPT !.hist.run[i].cmds = Append(@, bcmd.command_number)]
    ELSE S
NoteUnsaved(S, r) ==
    IF S.hist.keep = "unsaved" /\ r # None
    THEN [S EXCEPT !.hist.unsaved = @ \cup {r}] ELSE S
\* History of objects that are gone is dropped with them.
Tidy(S) ==
    [keep |-> S.hist.keep,
     run |-> [i \in Idx |-> IF Has(S.players, i) THEN S.hist.run[i] ELSE NoRun],
     unsaved |-> S.hist.unsaved \cap Reachable(S)]

\* The call took the machine to S.
Returns(S) ==
    /\ entity' = S.entity
    /\ recordings' = Collect(S)
    /\ mgr' = S.mgr
    /\ recorders' = S.recorders
    /\ players' = S.players
    /\ hist' = Tidy(S)

\* ---------------------------------------------------------------- Snapshot
Snapshot(origin, bcmd) == [origin |-> origin, bcmd |-> bcmd]

\* Snapshot.replay_bcmd: controller.run_player_move(self.bcmd)
replay_bcmd(S, snapshot, i) ==
    NoteCommand(HostCall(S, "run_player_move", i, snapshot.bcmd), i, snapshot.bcmd)

\* Snapshot.replay_location: player.teleport(origin, angle, velocity)
replay_location(S, snapshot, i) == HostCall(S, "teleport", i, snapshot.origin)

\* --------------------------------------------------------------- Recording
\* Recording.create_bcmd_from_ucmd: a reset BotCmd with the fields copied over.
create_bcmd_from_ucmd(ucmd) ==
    [command_number |-> ucmd.command_number,
     forward_move |-> ucmd.forward_move,
     buttons |-> ucmd.buttons]

create_snapshot(view) == Snapshot(view.origin, create_bcmd_from_ucmd(view.ucmd))

\* Recording.add_snapshot: self.append(self.create_snapshot(player))
add_snapshot(S, r, view) ==
    [S EXCEPT !.recordings[r] = Append(@, create_snapshot(view))]

is_playable(recs, r) == Len(recs[r]) > 0

\* Recording.tick_interval, server.tick_interval in milliseconds, and the
\* property Recording.duration.
TickInterval == 15
duration(recs, r) == Len(recs[r]) * TickInterval

\* Recording(player): a new, empty list object on the heap.
NewId(S) ==
    IF FreeIds(S) # {}
    THEN CHOOSE r \in FreeIds(S) : \A q \in FreeIds(S) : r <= q
    ELSE Len(S.recordings) + 1
NewRecording(S) ==
    IF NewId(S) <= Len(S.recordings)
    THEN [S EXCEPT !.recordings[NewId(S)] = <<>>]
    ELSE [S EXCEPT !.recordings = Append(@, <<>>)]

\* self.recording[self.tick] with Python's indexing: a negative index counts
\* from the end, anything outside -len..len-1 is an IndexError.
InRange(rec, t) == -Len(rec) <= t /\ t < Len(rec)
At(rec, t) == IF t >= 0 THEN rec[t + 1] ELSE rec[Len(rec) + t + 1]

\* ------------------------------------------------------------------ Player
\* Player.__init__.  index is replay_bot.index, the key in the registry.
Player(recording, controller, replay_bot, adjust) ==
    [index |-> replay_bot, tick |-> 0, recording |-> recording,
     state |-> PlayerState_PAUSED, controller |-> controller,
     adjust |-> adjust]

SetPlayer(S, p) == [S EXCEPT !.players = Put(@, p)]

\* Player.__del__, run by Python when the last reference to the Player p is
\* dropped.  The trace keeps, with the kick, the Player as it is then and
\* whether the registry still has an entry for its bot.
Player___del__(S, p) ==
    HostCall(HostCall(S, "remove_all_items", p.index, p.controller),
             "kick", p.index,
             [state |-> p.state, tick |-> p.tick,
              registered |-> Has(S.players, p.index)])

Player_resume(S, i) ==
    SetPlayer(S, [Get(S.players, i) EXCEPT !.state = PlayerState_PLAYING])

Player_start(S, i) ==
    LET p == Get(S.players, i)
        S1 == NoteStart(SetPlayer(S, [p EXCEPT !.tick = 0]),
                        i, Len(S.recordings[p.recording]))
        S2 == HostCall(HostCall(S1, "set_team", i, None), "spawn", i, None)
    IN  Player_resume(S2, i)

Player_pause(S, i) ==
    SetPlayer(S, [Get(S.players, i) EXCEPT !.state = PlayerState_PAUSED])

\* Player.played_time, a method.
played_time(S, i) == [S EXCEPT !.ret = Get(S.players, i).tick * TickInterval]

\* Player.remaining_time: self.recording.duration - self.played_time, where
\* self.played_time is the bound method, not its value: the subtraction of a
\* method from a float raises.
remaining_time(S, i) ==
    Raise(S, "TypeError: unsupported operand type(s) for -: 'float' and 'method'")

\* Variant: stop() that runs the last snapshot's command on its way.
Player_stop_replays(S, i) ==
    LET p == Get(S.players, i)
        rec == S.recordings[p.recording]
        S1 == replay_bcmd(S, rec[Len(rec)], i)
    IN  NoteStop(SetPlayer(S1, [p EXCEPT !.tick = Len(rec) - 1,
                                         !.state = PlayerState_STOPPED]), i)

Player_stop(S, i) ==
    LET p == Get(S.players, i)
    IN  NoteStop(SetPlayer(S, [p EXCEPT !.tick = Len(S.recordings[p.recording]) - 1,
                                        !.state = PlayerState_STOPPED]), i)

\* Variant: the test of line 277 with a distance of 50 units counted as too far.
NeedsAdjust_inclusive(p, snapshot, botOrigin) ==
    \/ p.tick = 0
    \/ /\ p.adjust
       /\ (botOrigin - snapshot.origin) * (botOrigin - snapshot.origin) >= AdjustDistanceSqr

\* The test of line 277; the distance is asked of the host only when the
\* first two operands leave it open.
NeedsAdjust(p, snapshot, botOrigin) ==
    \/ p.tick = 0
    \/ /\ p.adjust
       /\ (botOrigin - snapshot.origin) * (botOrigin - snapshot.origin) > AdjustDistanceSqr

\* Variant: a handler that advances past the last snapshot instead of stopping.
Player_handle_tick_overrun(S, i, botOrigin) ==
    LET p == Get(S.players, i)
        rec == S.recordings[p.recording]
    IN  IF p.state # PlayerState_PLAYING THEN S
        ELSE IF ~InRange(rec, p.tick) THEN Raise(S, "IndexError")
        ELSE
          LET snapshot == At(rec, p.tick)
              S1 == replay_bcmd(S, snapshot, i)
              S2 == IF p.tick # 0 /\ p.adjust
                    THEN HostCall(S1, "get_distance_sqr", i, botOrigin)
                    ELSE S1
              S3 == IF NeedsAdjust(p, snapshot, botOrigin)
                    THEN replay_location(S2, snapshot, i)
                    ELSE S2
          IN  IF p.tick < Len(rec)
              THEN SetPlayer(S3, [p EXCEPT !.tick = p.tick + 1])
              ELSE SetPlayer(S3, [p EXCEPT !.state = PlayerState_STOPPED])

Player_handle_tick(S, i, botOrigin) ==
    LET p == Get(S.players, i)
        rec == S.recordings[p.recording]
    IN  IF p.state # PlayerState_PLAYING THEN S
        ELSE IF ~InRange(rec, p.tick) THEN Raise(S, "IndexError")
        ELSE
          LET snapshot == At(rec, p.tick)
              S1 == replay_bcmd(S, snapshot, i)
              S2 == IF p.tick # 0 /\ p.adjust
                    THEN HostCall(S1, "get_distance_sqr", i, botOrigin)
                    ELSE S1
              S3 == IF NeedsAdjust(p, snapshot, botOrigin)
                    THEN replay_location(S2, snapshot, i)
                    ELSE S2
          IN  IF p.tick < Len(rec) - 1
              THEN SetPlayer(S3, [p EXCEPT !.tick = p.tick + 1])
              ELSE SetPlayer(S3, [p EXCEPT !.state = PlayerState_STOPPED])

\* ---------------------------------------------------------------- Recorder
\* Recorder.__init__.  index is the slot of self.player, the registry key.
Recorder(player) ==
    [index |-> player, state |-> RecorderState_PAUSED, recording |-> None]

SetRecorder(S, r) == [S EXCEPT !.recorders = Put(@, r)]

Recorder_start(S, i) ==
    LET S1 == NewRecording(S)
    IN  SetRecorder(S1, [Get(S.recorders, i) EXCEPT
                            !.recording = NewId(S),
                            !.state = RecorderState_RECORDING])

\* Variant: pause() without the test for STOPPED.
Recorder_pause_unguarded(S, i) ==
    SetRecorder(S, [Get(S.recorders, i) EXCEPT !.state = RecorderState_PAUSED])

Recorder_pause(S, i) ==
    LET r == Get(S.recorders, i)
    IN  IF r.state = RecorderState_STOPPED
        THEN Raise(S, "ValueError: Recorder is stopped.")
        ELSE SetRecorder(S, [r EXCEPT !.state = RecorderState_PAUSED])

\* Variant: resume() without the test for STOPPED.
Recorder_resume_unguarded(S, i) ==
    SetRecorder(S, [Get(S.recorders, i) EXCEPT !.state = RecorderState_RECORDING])

Recorder_resume(S, i) ==
    LET r == Get(S.recorders, i)
    IN  IF r.state = RecorderState_STOPPED
        THEN Raise(S, "ValueError: Recorder is stopped.")
        ELSE SetRecorder(S, [r EXCEPT !.state = RecorderState_RECORDING])

\* Variant: stop() that registers the recording whatever save is.
Recorder_stop_saves(S, i, save) ==
    LET r == Get(S.recorders, i)
        S0 == SetRecorder(S, [r EXCEPT !.state = RecorderState_STOPPED])
        S1 == IF save THEN S0 ELSE NoteUnsaved(S0, r.recording)
    IN  IF r.recording # None
           /\ ~Contains(S.recordings, S.mgr, r.recording)
        THEN [S1 EXCEPT !.mgr = Append(@, r.recording)]
        ELSE S1

Recorder_stop(S, i, save) ==
    LET r == Get(S.recorders, i)
        S0 == SetRecorder(S, [r EXCEPT !.state = RecorderState_STOPPED])
        S1 == IF save THEN S0 ELSE NoteUnsaved(S0, r.recording)
    IN  IF save /\ r.recording # None
           /\ ~Contains(S.recordings, S.mgr, r.recording)
        THEN [S1 EXCEPT !.mgr = Append(@, r.recording)]
        ELSE S1

Recorder_handle_tick(S, i) ==
    LET r == Get(S.recorders, i)
    IN  IF r.state # RecorderState_RECORDING THEN S
        ELSE IF r.recording = None
        THEN Raise(S, "AttributeError: 'NoneType' object has no attribute 'add_snapshot'")
        ELSE add_snapshot(S, r.recording, PlayerView(Len(S.recordings[r.recording])))

\* -------------------------------------------------------- RecordingManager
\* Variant: remove_player that does not stop the Player.
remove_player_unstopped(S, i) ==
    IF ~Has(S.players, i) THEN S
    ELSE Player___del__([S EXCEPT !.players = Del(@, i)], Get(S.players, i))

remove_player(S, i) ==
    IF ~Has(S.players, i) THEN S
    ELSE LET S1 == Player_stop(S, i)
             p == Get(S1.players, i)
         IN  Player___del__([S1 EXCEPT !.players = Del(@, i)], p)

\* Variant: create_player that asks the host for a bot before it looks at the
\* recording.
create_player_asks_first(S, r, adjust, edict, controllerOk) ==
    LET S1 == HostCall(S, "create_bot", edict, None)
    IN  IF ~is_playable(S.recordings, r)
        THEN Raise(S1, "ValueError: Recording is not playable.")
        ELSE IF edict = None
        THEN Raise(S1, "ValueError: Failed to create a replay bot.")
        ELSE
          LET S2 == HostCall([S1 EXCEPT !.entity[edict] = "bot"],
                             "get_bot_controller", edict, None)
          IN  IF ~controllerOk
              THEN Raise(S2, "ValueError: Failed to get the bot controller.")
              ELSE
                LET S3 == IF Has(S2.players, edict)
                          THEN Player___del__(S2, Get(S2.players, edict))
                          ELSE S2
                    S4 == NoteStop(SetPlayer(S3, Player(r, edict, edict, adjust)), edict)
                IN  [S4 EXCEPT !.ret = edict]

\* Variant: create_player that registers the Player before it has looked at
\* the controller.
create_player_registers_first(S, r, adjust, edict, controllerOk) ==
    IF ~is_playable(S.recordings, r)
    THEN Raise(S, "ValueError: Recording is not playable.")
    ELSE
      LET S1 == HostCall(S, "create_bot", edict, None)
      IN  IF edict = None
          THEN Raise(S1, "ValueError: Failed to create a replay bot.")
          ELSE
            LET S2 == HostCall([S1 EXCEPT !.entity[edict] = "bot"],
                               "get_bot_controller", edict, None)
                S3 == IF Has(S2.players, edict)
                      THEN Player___del__(S2, Get(S2.players, edict))
                      ELSE S2
                S4 == NoteStop(SetPlayer(S3, Player(r,
                          IF controllerOk THEN edict ELSE None, edict, adjust)), edict)
            IN  IF ~controllerOk
                THEN Raise(S4, "ValueError: Failed to get the bot controller.")
                ELSE [S4 EXCEPT !.ret = edict]

\* edict is what bot_manager.create_bot returns (None or a free slot),
\* controllerOk whether bot_manager.get_bot_controller returns a controller.
create_player(S, r, adjust, edict, controllerOk) ==
    IF ~is_playable(S.recordings, r)
    THEN Raise(S, "ValueError: Recording is not playable.")
    ELSE
      LET S1 == HostCall(S, "create_bot", edict, None)
      IN  IF edict = None
          THEN Raise(S1, "ValueError: Failed to create a replay bot.")
          ELSE
            LET S2 == HostCall([S1 EXCEPT !.entity[edict] = "bot"],
                               "get_bot_controller", edict, None)
            IN  IF ~controllerOk
                THEN Raise(S2, "ValueError: Failed to get the bot controller.")
                ELSE
                  LET S3 == IF Has(S2.players, edict)
                            THEN Player___del__(S2, Get(S2.players, edict))
                            ELSE S2
                      S4 == NoteStop(SetPlayer(S3, Player(r, edict, edict, adjust)), edict)
                  IN  [S4 EXCEPT !.ret = edict]

\* The first registered Player whose recording is this very object.
PlayersOf(S, r) == { k \in 1..Len(S.players) : S.players[k].recording = r }
FirstOf(ks) == CHOOSE k \in ks : \A j \in ks : k <= j

\* Variant: get_player that never looks for a Player already bound.
get_player_unbound(S, r, edict, controllerOk) ==
    create_player(S, r, TRUE, edict, controllerOk)

get_player(S, r, edict, controllerOk) ==
    IF PlayersOf(S, r) # {}
    THEN [S EXCEPT !.ret = S.players[FirstOf(PlayersOf(S, r))].index]
    ELSE create_player(S, r, TRUE, edict, controllerOk)

\* SPPlayer(index) raises for a slot that holds no player.
get_recorder(S, i) ==
    IF Has(S.recorders, i) THEN [S EXCEPT !.ret = i]
    ELSE IF S.entity[i] = "free"
    THEN Raise(S, "ValueError: Conversion from index failed.")
    ELSE [SetRecorder(S, Recorder(i)) EXCEPT !.ret = i]

\* Variant: remove_recorder that only unregisters.
remove_recorder_unregisters(S, i, save) ==
    IF ~Has(S.recorders, i) THEN S
    ELSE [S EXCEPT !.recorders = Del(@, i)]

remove_recorder(S, i, save) ==
    IF ~Has(S.recorders, i) THEN S
    ELSE LET S1 == Recorder_stop(S, i, save)
         IN  [S1 EXCEPT !.recorders = Del(@, i)]

\* Recording.remove: recording_mgr.remove(self)
Recording_remove(S, r) ==
    IF ~Contains(S.recordings, S.mgr, r)
    THEN Raise(S, "ValueError: list.remove(x): x not in list")
    ELSE [S EXCEPT !.mgr = RemoveAt(@, FirstEq(S.recordings, S.mgr, r))]

\* Recording.play
Recording_play(S, r, edict, controllerOk) ==
    LET S1 == get_player(S, r, edict, controllerOk)
    IN  IF ~Ok(S1) THEN S1 ELSE Player_start(S1, S1.ret)

\* --------------------------------------------------------------- listeners
\* The frame's input: where each replay bot stands (asked only of the bots
\* whose distance is looked at).
OriginOf(origins, i) == IF i \in DOMAIN origins THEN origins[i] ELSE 0

\* for recorder in recording_mgr.recorders.values(): recorder.handle_tick()
\* An exception leaves the loop and the listener.
RECURSIVE TickRecorders(_, _)
TickRecorders(S, k) ==
    IF ~Ok(S) \/ k > Len(S.recorders) THEN S
    ELSE TickRecorders(Recorder_handle_tick(S, S.recorders[k].index), k + 1)

\* for player in recording_mgr.players.values(): player.handle_tick()
RECURSIVE TickPlayers(_, _, _)
TickPlayers(S, k, origins) ==
    IF ~Ok(S) \/ k > Len(S.players) THEN S
    ELSE LET i == S.players[k].index
         IN  TickPlayers(Player_handle_tick(S, i, OriginOf(origins, i)), k + 1, origins)

on_tick(S, origins) ==
    TickPlayers(TickRecorders(S, 1), 1, origins)

\* base_entity.is_player() holds for the slots this model keeps.
on_entity_deleted(S, i) ==
    remove_player(remove_recorder(S, i, TRUE), i)

\* on_tick during which the host deletes the player of slot i and notifies the
\* plugin, right after the at-th handler call of the tick.  The iterator of a
\* dict's values() remembers the size of the dict and raises at its next step
\* when the size is another, also when no entry is left to visit.
RECURSIVE TickRecordersAt(_, _, _, _, _)
TickRecordersAt(S, k, size, at, i) ==
    IF ~Ok(S) THEN S
    ELSE IF Len(S.recorders) # size
    THEN Raise(S, "RuntimeError: dictionary changed size during iteration")
    ELSE IF k > Len(S.recorders) THEN S
    ELSE LET S1 == Recorder_handle_tick(S, S.recorders[k].index)
             S2 == IF Ok(S1) /\ at = k
                   THEN on_entity_deleted([S1 EXCEPT !.entity[i] = "free"], i)
                   ELSE S1
         IN  TickRecordersAt(S2, k + 1, size, at, i)

RECURSIVE TickPlayersAt(_, _, _, _, _, _)
TickPlayersAt(S, k, size, at, i, origins) ==
    IF ~Ok(S) THEN S
    ELSE IF Len(S.players) # size
    THEN Raise(S, "RuntimeError: dictionary changed size during iteration")
    ELSE IF k > Len(S.players) THEN S
    ELSE LET j == S.players[k].index
             S1 == Player_handle_tick(S, j, OriginOf(origins, j))
             S2 == IF Ok(S1) /\ at = k
                   THEN on_entity_deleted([S1 EXCEPT !.entity[i] = "free"], i)
                   ELSE S1
         IN  TickPlayersAt(S2, k + 1, size, at, i, origins)

on_tick_notified(S, origins, at, i) ==
    LET S1 == TickRecordersAt(S, 1, Len(S.recorders), at, i)
    IN  IF ~Ok(S1) THEN S1
        ELSE TickPlayersAt(S1, 1, Len(S1.players), at - Len(S.recorders), i, origins)

\* ------------------------------------------------------- the TEST commands
\* recording_mgr.players.clear(): the dict is emptied, then every Player it
\* held is dropped, in order.
RECURSIVE DropAll(_, _)
DropAll(S, ps) ==
    IF Len(ps) = 0 THEN S
    ELSE DropAll(Player___del__(S, Head(ps)), Tail(ps))
ClearPlayers(S) == DropAll([S EXCEPT !.players = <<>>], S.players)

on_menu_select(S, r, edict, controllerOk) ==
    LET S1 == create_player(S, r, FALSE, edict, controllerOk)
    IN  IF ~Ok(S1) THEN S1 ELSE Player_start(S1, S1.ret)

on_record(S, i) ==
    LET S1 == get_recorder(S, i)
    IN  IF ~Ok(S1) THEN S1 ELSE Recorder_start(S1, i)

\* !stop [x]: print(recorder.recording.duration) fails on a Recorder that
\* was never started, before the players are cleared.
on_stop(S, i, x) ==
    LET S1 == get_recorder(S, i)
        S2 == Recorder_stop(S1, i, TRUE)
    IN  IF ~Ok(S1) THEN S1
        ELSE IF Get(S2.recorders, i).recording = None
        THEN Raise(S2, "AttributeError: 'NoneType' object has no attribute 'duration'")
        ELSE IF x THEN ClearPlayers(S2) ELSE S2

\* !pause
RECURSIVE PauseFrom(_, _)
PauseFrom(S, k) ==
    IF k > Len(S.players) THEN S
    ELSE PauseFrom(Player_pause(S, S.players[k].index), k + 1)
on_pause(S) == PauseFrom(S, 1)

\* ------------------------------------------------------------------ actions
\* The Recordings a caller can name.
Known == Reachable(Machine)
\* The heap has room for one more Recording.
CanAllocate == FreeIds(Machine) # {} \/ Len(recordings) < MaxRecordings
\* What bot_manager.create_bot can answer: no edict, or one of a free slot.
Edicts == {None} \cup { i \in Idx : entity[i] = "free" }
\* The recorders that append in this frame, the players whose bot's distance
\* is looked at in this frame.
Appending ==
    { recorders[k].index : k \in { j \in 1..Len(recorders) :
        recorders[j].state = RecorderState_RECORDING /\ recorders[j].recording # None } }
Asking ==
    { players[k].index : k \in { j \in 1..Len(players) :
        /\ players[j].state = PlayerState_PLAYING
        /\ players[j].tick # 0 /\ players[j].adjust } }

Call_Recorder_start(i) ==
    /\ Has(recorders, i) /\ CanAllocate
    /\ Returns(Recorder_start(Machine, i))
Call_Recorder_pause(i) ==
    /\ Has(recorders, i)
    /\ Returns(Recorder_pause(Machine, i))
Call_Recorder_resume(i) ==
    /\ Has(recorders, i)
    /\ Returns(Recorder_resume(Machine, i))
Call_Recorder_stop(i, save) ==
    /\ Has(recorders, i)
    /\ Returns(Recorder_stop(Machine, i, save))
Call_Player_start(i) ==
    /\ Has(players, i)
    /\ Returns(Player_start(Machine, i))
Call_Player_resume(i) ==
    /\ Has(players, i)
    /\ Returns(Player_resume(Machine, i))
Call_Player_pause(i) ==
    /\ Has(players, i)
    /\ Returns(Player_pause(Machine, i))
Call_Player_stop(i) ==
    /\ Has(players, i)
    /\ Returns(Player_stop(Machine, i))
Call_remove_player(i) ==
    Returns(remove_player(Machine, i))
Call_create_player(r, adjust, edict, controllerOk) ==
    Returns(create_player(Machine, r, adjust, edict, controllerOk))
Call_get_player(r, edict, controllerOk) ==
    Returns(get_player(Machine, r, edict, controllerOk))
\* Recorders are asked for on behalf of clients (and of slots nobody holds).
Call_get_recorder(i) ==
    /\ entity[i] # "bot"
    /\ Returns(get_recorder(Machine, i))
Call_remove_recorder(i, save) ==
    Returns(remove_recorder(Machine, i, save))
Call_Recording_remove(r) ==
    Returns(Recording_remove(Machine, r))
Call_Recording_play(r, edict, controllerOk) ==
    Returns(Recording_play(Machine, r, edict, controllerOk))
Call_on_tick(origins) ==
    /\ \A k \in 1..Len(recorders) :
          recorders[k].index \in Appending
             => Len(recordings[recorders[k].recording]) < MaxLen
    /\ Returns(on_tick(Machine, origins))
\* The host removes the player of slot i and notifies the plugin.
Call_on_entity_deleted(i) ==
    /\ entity[i] # "free"
    /\ Returns(on_entity_deleted([Machine EXCEPT !.entity[i] = "free"], i))
Call_on_menu_select(r, edict, controllerOk) ==
    Returns(on_menu_select(Machine, r, edict, controllerOk))
Call_on_record(i) ==
    /\ entity[i] = "client" /\ CanAllocate
    /\ Returns(on_record(Machine, i))
Call_on_stop(i, x) ==
    /\ entity[i] = "client"
    /\ Returns(on_stop(Machine, i, x))
Call_on_pause ==
    Returns(on_pause(Machine))

Loaded(keep) ==
    /\ entity = [i \in Idx |-> IF i \in Clients THEN "client" ELSE "free"]
    /\ recordings = <<>>
    /\ mgr = <<>>
    /\ recorders = <<>>
    /\ players = <<>>
    /\ hist = NoHistory(keep)

Init == Loaded("none")

\* A Recording of n frames, as Recorder.handle_tick builds it.
Recorded(n) == [k \in 1..n |-> create_snapshot(PlayerView(k - 1))]
\* The server after the clients have recorded, saved and left: the manager
\* lists the Recordings (one of them empty at most, see Recorder.stop), no
\* Recorder is left and every slot is free.
Recordings(keep) ==
    /\ entity = [i \in Idx |-> "free"]
    /\ \E lens \in UNION { [1..k -> 0..MaxLen] : k \in 1..MaxRecordings } :
          /\ Cardinality({ r \in DOMAIN lens : lens[r] = 0 }) <= 1
          /\ recordings = [r \in DOMAIN lens |-> Recorded(lens[r])]
          /\ mgr = [r \in DOMAIN lens |-> r]
    /\ recorders = <<>>
    /\ players = <<>>
    /\ hist = NoHistory(keep)

\* What is done to Recorders and to the Recordings they make.
NextRecorders ==
    \/ \E i \in Idx : Call_get_recorder(i)
    \/ \E i \in Idx : Call_Recorder_start(i)
    \/ \E i \in Idx : Call_Recorder_pause(i)
    \/ \E i \in Idx : Call_Recorder_resume(i)
    \/ \E i \in Idx, save \in BOOLEAN : Call_Recorder_stop(i, save)
    \/ \E i \in Idx, save \in BOOLEAN : Call_remove_recorder(i, save)
    \/ \E r \in Known : Call_Recording_remove(r)
    \/ \E origins \in [Asking -> BotOrigins] : Call_on_tick(origins)
    \/ \E i \in Idx : Call_on_entity_deleted(i)
    \/ \E i \in Idx : Call_on_record(i)
    \/ \E i \in Idx, x \in BOOLEAN : Call_on_stop(i, x)

\* What is done to Players.
NextPlayers ==
    \/ \E r \in Known, adjust \in BOOLEAN, edict \in Edicts, ok \in BOOLEAN :
          Call_create_player(r, adjust, edict, ok)
    \/ \E r \in Known, edict \in Edicts, ok \in BOOLEAN : Call_get_player(r, edict, ok)
    \/ \E r \in Known, edict \in Edicts, ok \in BOOLEAN : Call_Recording_play(r, edict, ok)
    \/ \E r \in { mgr[k] : k \in 1..Len(mgr) }, edict \in Edicts, ok \in BOOLEAN :
          Call_on_menu_select(r, edict, ok)
    \/ \E i \in Idx : Call_Player_start(i)
    \/ \E i \in Idx : Call_Player_resume(i)
    \/ \E i \in Idx : Call_Player_pause(i)
    \/ \E i \in Idx : Call_Player_stop(i)
    \/ \E i \in Idx : Call_remove_player(i)
    \/ Call_on_pause

Next == NextRecorders \/ NextPlayers

\* What happens on a server where Recordings are only replayed.
NextReplay ==
    \/ NextPlayers
    \/ \E r \in Known : Call_Recording_remove(r)
    \/ \E origins \in [Asking -> BotOrigins] : Call_on_tick(origins)
    \/ \E i \in Idx : Call_on_entity_deleted(i)

\* The plugin on a server, every call open to its users and to the host.
Spec == Init /\ [][Next]_vars

\* A server on which the saved Recordings are replayed, with the history of
\* each Player's run kept.
SpecRuns == Recordings("runs") /\ [][NextReplay]_vars

\* A server on which nothing is replayed.
SpecRecorders == Loaded("none") /\ [][NextRecorders]_vars

\* The same, with the history of the unsaved Recordings kept.
SpecUnsaved == Loaded("unsaved") /\ [][NextRecorders]_vars

\* ==================================================================== claims
\* A method applied to the machine as it stands: what it raises, and whether
\* it leaves the registries, the Recordings and the manager's list alone.
SameObjects(S) ==
    /\ S.recorders = recorders
    /\ S.players = players
    /\ S.recordings = recordings
    /\ S.mgr = mgr
Untouched(S) == SameObjects(S) /\ S.entity = entity /\ S.calls = <<>>
RecordingOf(S, r) == S.recordings[r]
Grown(new, old) == Len(new) = Len(old) + 1 /\ SubSeq(new, 1, Len(old)) = old
AllOrigins == [Asking -> BotOrigins]

\* C1: at every manager tick the Recording of each registered Recorder grows
\* by exactly one Snapshot, appended at the end, if the Recorder is Recording,
\* and keeps its length if the Recorder is Paused or Stopped; pause, resume,
\* stop and the tick of a Player leave the length alone.
C1_TickAppendsOnePerRecorder ==
    \A k \in 1..Len(recorders) :
      LET r == recorders[k]
          old == recordings[r.recording]
      IN  r.recording # None =>
            /\ \A origins \in AllOrigins :
                 LET new == RecordingOf(on_tick(Machine, origins), r.recording)
                 IN  IF r.state = RecorderState_RECORDING
                     THEN Grown(new, old) ELSE new = old
            /\ \A i \in Keys(recorders), save \in BOOLEAN :
                 /\ RecordingOf(Recorder_pause(Machine, i), r.recording) = old
                 /\ RecordingOf(Recorder_resume(Machine, i), r.recording) = old
                 /\ RecordingOf(Recorder_stop(Machine, i, save), r.recording) = old
            /\ \A i \in Keys(players), o \in BotOrigins :
                 RecordingOf(Player_handle_tick(Machine, i, o), r.recording) = old

\* C2: after start() on a Recording of n >= 1 snapshots that is not appended
\* to, and with only ticks, pause() and resume() since, the commands run on
\* the bot are the snapshots' commands 1, 2, ... in recording order, never
\* more than n of them, and all n of them once the Player is Stopped.
C2_ReplaysEachSnapshotOnce ==
    \A i \in Keys(players) :
      LET p == Get(players, i)
          rec == recordings[p.recording]
          h == hist.run[i]
      IN  (h.n > 0 /\ Len(rec) = h.n) =>
            /\ Len(h.cmds) <= h.n
            /\ \A k \in 1..Len(h.cmds) :
                 k <= Len(rec) /\ h.cmds[k] = rec[k].bcmd.command_number
            /\ p.state = PlayerState_STOPPED => Len(h.cmds) = h.n

\* C3: every registered Player that is not Stopped has
\* 0 <= tick < len(recording).
C3_TickInBounds ==
    \A k \in 1..Len(players) :
      players[k].state # PlayerState_STOPPED =>
        /\ 0 <= players[k].tick
        /\ players[k].tick < Len(recordings[players[k].recording])
C3_Witness ==
    \E k \in 1..Len(players) :
      /\ players[k].state = PlayerState_PLAYING
      /\ players[k].tick = 1
      /\ Len(recordings[players[k].recording]) = 2

\* C4 as claimed: a Recorder that is Stopped stays Stopped whatever is done
\* to it.
C4_StoppedIsTerminal ==
    [][ \A i \in Keys(recorders) \cap Keys(recorders') :
          Get(recorders, i).state = RecorderState_STOPPED
             => Get(recorders', i).state = RecorderState_STOPPED ]_vars
\* C4 as amended: a Stopped Recorder is never put into Paused, keeps its
\* Recording as it is while it is Stopped, and leaves Stopped only by a start:
\* into Recording, with another, empty Recording.
C4_StoppedUntilRestarted ==
    [][ \A i \in Keys(recorders) \cap Keys(recorders') :
          LET r == Get(recorders, i)
              q == Get(recorders', i)
          IN  r.state = RecorderState_STOPPED =>
                \/ /\ q = r
                   /\ r.recording # None => recordings'[r.recording] = recordings[r.recording]
                \/ /\ q.state = RecorderState_RECORDING
                   /\ q.recording # None /\ q.recording # r.recording
                   /\ recordings'[q.recording] = <<>>
                   /\ Call_Recorder_start(i) \/ Call_on_record(i) ]_vars
C4_Witness ==
    \E i \in Keys(recorders) :
      /\ Get(recorders, i).state = RecorderState_STOPPED
      /\ Get(recorders, i).recording # None
      /\ Len(recordings[Get(recorders, i).recording]) > 0
      /\ ~Ok(Recorder_resume(Machine, i))
      /\ CanAllocate

\* C5: pause() and resume() on a Stopped Recorder raise and change nothing;
\* on any other Recorder they return and set Paused and Recording.
C5_PauseResumeGuarded ==
    \A i \in Keys(recorders) :
      LET P == Recorder_pause(Machine, i)
          R == Recorder_resume(Machine, i)
      IN  IF Get(recorders, i).state = RecorderState_STOPPED
          THEN /\ P.err = "ValueError: Recorder is stopped." /\ Untouched(P)
               /\ R.err = "ValueError: Recorder is stopped." /\ Untouched(R)
          ELSE /\ Ok(P) /\ Ok(R)
               /\ P.recorders = Put(recorders,
                      [Get(recorders, i) EXCEPT !.state = RecorderState_PAUSED])
               /\ R.recorders = Put(recorders,
                      [Get(recorders, i) EXCEPT !.state = RecorderState_RECORDING])
C5_Witness ==
    /\ \E i \in Keys(recorders) :
         /\ Get(recorders, i).state = RecorderState_STOPPED
         /\ Get(recorders, i).recording \in { mgr[k] : k \in 1..Len(mgr) }
    /\ \E i \in Keys(recorders) :
         /\ Get(recorders, i).state = RecorderState_RECORDING
         /\ Get(recorders, i).recording # None

\* C6: a Stopped Player stays Stopped, with its tick at the last snapshot,
\* under resume(), pause() and its tick handler, and no command is run on its
\* bot.
C6_StoppedPlayerStaysStopped ==
    \A i \in Keys(players) :
      LET p == Get(players, i)
          last == Len(recordings[p.recording]) - 1
          Stays(S) == /\ Get(S.players, i).state = PlayerState_STOPPED
                      /\ Get(S.players, i).tick = last
                      /\ S.calls = <<>>
      IN  p.state = PlayerState_STOPPED =>
            /\ Stays(Player_resume(Machine, i))
            /\ Stays(Player_pause(Machine, i))
            /\ \A o \in BotOrigins : Stays(Player_handle_tick(Machine, i, o))

\* C7 as claimed: no two registered Players are bound to the same Recording.
C7_OnePlayerPerRecording ==
    \A j, k \in 1..Len(players) :
      j # k => players[j].recording # players[k].recording
\* C7 as amended: get_player for a Recording that a registered Player is
\* bound to returns that Player, the first in the registry, asks the host for
\* nothing and registers nothing; create_player, when the host gives a bot
\* and its controller, registers one more Player for the Recording.
C7_GetPlayerFindsBound ==
    \A r \in Known, edict \in Edicts, ok \in BOOLEAN :
      /\ PlayersOf(Machine, r) # {} =>
           LET S == get_player(Machine, r, edict, ok)
           IN  /\ Ok(S) /\ Untouched(S)
               /\ Has(players, S.ret)
               /\ Get(players, S.ret).recording = r
               /\ \A k \in PlayersOf(Machine, r) : Pos(players, S.ret) <= k
      /\ (is_playable(recordings, r) /\ edict # None /\ ok) =>
           \A adjust \in BOOLEAN :
             LET S == create_player(Machine, r, adjust, edict, ok)
             IN  /\ Ok(S) /\ S.ret = edict
                 /\ ~Has(players, edict)
                 /\ S.players = Append(players, Player(r, edict, edict, adjust))
C7_Witness ==
    \E k \in 1..Len(players), edict \in Edicts :
      /\ edict # None
      /\ get_player(Machine, players[k].recording, edict, TRUE).ret = players[k].index

\* C8: a Recording is playable iff it holds a Snapshot, and create_player,
\* get_player and Recording.play for one that is not raise the non-playable
\* error without a call to the host and without a change of the registry.
C8_NotPlayableRefused ==
    \A r \in Known :
      /\ is_playable(recordings, r) <=> Len(recordings[r]) >= 1
      /\ Len(recordings[r]) = 0 =>
           \A edict \in Edicts, ok \in BOOLEAN, adjust \in BOOLEAN :
             LET Refused(S) == /\ S.err = "ValueError: Recording is not playable."
                               /\ Untouched(S)
             IN  /\ Refused(create_player(Machine, r, adjust, edict, ok))
                 /\ Refused(get_player(Machine, r, edict, ok))
                 /\ Refused(Recording_play(Machine, r, edict, ok))
C8_Witness ==
    \E r \in Known, edict \in Edicts :
      /\ Len(recordings[r]) = 0
      /\ r \in { mgr[k] : k \in 1..Len(mgr) }
      /\ edict # None
      /\ ~Ok(create_player(Machine, r, TRUE, edict, TRUE))

\* C9: create_player that gets no bot, or no controller for its bot, raises
\* and leaves the registry as it was; every registered Player has a
\* controller.
C9_NoPlayerWithoutController ==
    /\ \A k \in 1..Len(players) : players[k].controller # None
    /\ \A r \in Known, edict \in Edicts, ok \in BOOLEAN, adjust \in BOOLEAN :
         LET S == create_player(Machine, r, adjust, edict, ok)
         IN  /\ (is_playable(recordings, r) /\ edict = None) =>
                  /\ S.err = "ValueError: Failed to create a replay bot."
                  /\ S.players = players
             /\ (is_playable(recordings, r) /\ edict # None /\ ~ok) =>
                  /\ S.err = "ValueError: Failed to get the bot controller."
                  /\ S.players = players
             /\ Ok(S) =>
                  /\ edict # None /\ ok
                  /\ Get(S.players, S.ret).controller = edict
C9_Witness ==
    \E r \in Known, i \in Idx :
      /\ is_playable(recordings, r)
      /\ entity[i] = "bot" /\ ~Has(players, i)
      /\ \E edict \in Edicts :
           /\ edict # None
           /\ ~Ok(create_player(Machine, r, TRUE, edict, FALSE))

Listed(l, r) == { k \in 1..Len(l) : l[k] = r }
\* The notification for slot i, which the host sends once the slot is empty.
Deleted(i) == on_entity_deleted([Machine EXCEPT !.entity[i] = "free"], i)

\* C11 as claimed: remove_recorder, and the notification that the recorded
\* player is gone, unregister the Recorder and leave the manager's list as it
\* is: the Recording in progress is not listed.
C11_RemovalDiscards ==
    \A i \in Keys(recorders) :
      LET r == Get(recorders, i).recording
      IN  (Get(recorders, i).state # RecorderState_STOPPED /\ r # None) =>
            /\ ~Has(Deleted(i).recorders, i)
            /\ Deleted(i).mgr = mgr
            /\ \A save \in BOOLEAN :
                 /\ ~Has(remove_recorder(Machine, i, save).recorders, i)
                 /\ remove_recorder(Machine, i, save).mgr = mgr
\* C11 as amended: remove_recorder unregisters the Recorder and nothing else
\* when save is False; when save is True, as it is by default and in the
\* notification, a Recording that holds a Snapshot and is not listed is
\* appended to the manager's list, and nothing else is ever added; for a slot
\* without Recorder nothing changes.
C11_RemovalSavesByDefault ==
    \A i \in Idx, save \in BOOLEAN :
      LET S == remove_recorder(Machine, i, save)
          D == Deleted(i)
      IN  IF ~Has(recorders, i)
          THEN SameObjects(S) /\ D.recorders = recorders /\ D.mgr = mgr
          ELSE
            LET r == Get(recorders, i).recording
                Fresh == r # None /\ Len(recordings[r]) > 0 /\ Listed(mgr, r) = {}
            IN  /\ Ok(S) /\ Ok(D)
                /\ S.recorders = Del(recorders, i) /\ D.recorders = Del(recorders, i)
                /\ S.recordings = recordings /\ S.players = players
                /\ ~save => S.mgr = mgr
                /\ (save /\ Fresh) => S.mgr = Append(mgr, r)
                /\ Fresh => D.mgr = Append(mgr, r)
                /\ S.mgr # mgr => (save /\ r # None /\ S.mgr = Append(mgr, r))
                /\ D.mgr # mgr => (r # None /\ D.mgr = Append(mgr, r))
C11_Witness ==
    \E i \in Keys(recorders) :
      LET r == Get(recorders, i).recording
      IN  /\ Get(recorders, i).state = RecorderState_RECORDING
          /\ r # None /\ Len(recordings[r]) > 0 /\ Listed(mgr, r) = {}
          /\ Listed(Deleted(i).mgr, r) # {}

\* C12: stop(save=True) of a Recorder that has a Recording leaves that very
\* Recording exactly once in the manager's list, whatever the list holds,
\* and so does a second stop.
C12_SavedExactlyOnce ==
    \A i \in Keys(recorders) :
      LET r == Get(recorders, i).recording
          S == Recorder_stop(Machine, i, TRUE)
      IN  r # None =>
            /\ Cardinality(Listed(S.mgr, r)) = 1
            /\ Cardinality(Listed(Recorder_stop(S, i, TRUE).mgr, r)) = 1

\* C13: no Recorder that is Recording holds a Recording that a registered
\* Player is bound to.
C13_NoPlayerOnGrowingRecording ==
    \A k \in 1..Len(recorders), j \in 1..Len(players) :
      (recorders[k].state = RecorderState_RECORDING /\ recorders[k].recording # None)
         => players[j].recording # recorders[k].recording

\* The calls of a trace to one function of the host.
CallsTo(calls, fn) == { k \in 1..Len(calls) : calls[k].fn = fn }

\* C14: the tick of a Playing Player runs the command of the snapshot at its
\* tick first, and then teleports the bot to the snapshot iff the tick is 0,
\* or adjust is set and the squared distance of the bot from the snapshot is
\* greater than 2500.
C14_CorrectionRule ==
    \A i \in Keys(players), o \in BotOrigins :
      LET p == Get(players, i)
          snapshot == recordings[p.recording][p.tick + 1]
          d == o - snapshot.origin
          S == Player_handle_tick(Machine, i, o)
          corrects == p.tick = 0 \/ (p.adjust /\ d * d > 2500)
      IN  p.state = PlayerState_PLAYING =>
            /\ Ok(S)
            /\ CallsTo(S.calls, "run_player_move") = {1}
            /\ S.calls[1] = [fn |-> "run_player_move", index |-> i, data |-> snapshot.bcmd]
            /\ CallsTo(S.calls, "teleport") = IF corrects THEN {Len(S.calls)} ELSE {}
            /\ corrects => S.calls[Len(S.calls)] =
                 [fn |-> "teleport", index |-> i, data |-> snapshot.origin]
C14_Witness ==
    \E i \in Keys(players), o \in BotOrigins :
      LET p == Get(players, i)
          d == o - recordings[p.recording][p.tick + 1].origin
      IN  /\ p.state = PlayerState_PLAYING /\ p.tick = 1 /\ p.adjust
          /\ d * d = 2500
          /\ CallsTo(Player_handle_tick(Machine, i, o).calls, "teleport") = {}
          /\ \E o2 \in BotOrigins :
               CallsTo(Player_handle_tick(Machine, i, o2).calls, "teleport") # {}

\* C15: Player.stop() sets the state to Stopped and the tick to the last
\* snapshot's, makes no call on the bot, and leaves the other Players, the
\* Recorders, the Recordings and the manager's list as they are.
C15_StopOnlyJumps ==
    \A i \in Keys(players) :
      LET p == Get(players, i)
          S == Player_stop(Machine, i)
      IN  /\ Ok(S) /\ S.calls = <<>>
          /\ S.players = [players EXCEPT ![Pos(players, i)] =
                 [p EXCEPT !.state = PlayerState_STOPPED,
                           !.tick = Len(recordings[p.recording]) - 1]]
          /\ S.recorders = recorders /\ S.recordings = recordings
          /\ S.mgr = mgr /\ S.entity = entity
C15_Witness ==
    \E i \in Keys(players) :
      /\ Get(players, i).state = PlayerState_PLAYING
      /\ Get(players, i).tick = 0
      /\ Len(recordings[Get(players, i).recording]) = 2
      /\ Get(Player_stop(Machine, i).players, i).tick = 1

\* C16: for every registered Player remaining_time() returns, without error,
\* the Recording's duration less played_time(), that is len - tick tick
\* intervals, and played_time() is tick tick intervals.
C16_RemainingTime ==
    \A i \in Keys(players) :
      LET p == Get(players, i)
          R == remaining_time(Machine, i)
          P == played_time(Machine, i)
          D == duration(recordings, p.recording)
      IN  /\ Ok(P) /\ P.ret = p.tick * TickInterval
          /\ D = Len(recordings[p.recording]) * TickInterval
          /\ Ok(R)
          /\ R.ret = D - P.ret
          /\ R.ret = (Len(recordings[p.recording]) - p.tick) * TickInterval
          /\ P.ret + R.ret = D

\* The two calls of a Player's teardown, for the Player as it is then.
Teardown(p, registered) ==
    << [fn |-> "remove_all_items", index |-> p.index, data |-> p.controller],
       [fn |-> "kick", index |-> p.index,
        data |-> [state |-> p.state, tick |-> p.tick, registered |-> registered]] >>
StoppedPlayer(p) ==
    [p EXCEPT !.state = PlayerState_STOPPED, !.tick = Len(recordings[p.recording]) - 1]
RECURSIVE Teardowns(_)
Teardowns(ps) ==
    IF Len(ps) = 0 THEN <<>> ELSE Teardown(Head(ps), FALSE) \o Teardowns(Tail(ps))
RECURSIVE StoppedTeardowns(_)
StoppedTeardowns(ps) ==
    IF Len(ps) = 0 THEN <<>>
    ELSE Teardown(StoppedPlayer(Head(ps)), TRUE) \o StoppedTeardowns(Tail(ps))

\* C17 as claimed: on every path that takes a Player out of the registry
\* (remove_player, the notification that its bot is gone, the clearing of
\* the registry) the Player is stopped, torn down exactly once (items
\* removed, then kicked) while its entry is still there, and unregistered;
\* remove_player for a bot without Player changes nothing.
C17_StoppedAndReleasedBeforeDropped ==
    /\ \A i \in Idx :
         IF Has(players, i)
         THEN /\ remove_player(Machine, i).players = Del(players, i)
              /\ remove_player(Machine, i).calls =
                    Teardown(StoppedPlayer(Get(players, i)), TRUE)
              /\ Deleted(i).players = Del(players, i)
              /\ Deleted(i).calls = Teardown(StoppedPlayer(Get(players, i)), TRUE)
         ELSE Untouched(remove_player(Machine, i))
    /\ ClearPlayers(Machine).players = <<>>
    /\ ClearPlayers(Machine).calls = StoppedTeardowns(players)
\* C17 as amended: remove_player and the notification stop the Player, drop
\* its entry and then tear it down, exactly once, as a Stopped Player at its
\* last snapshot; the clearing of the registry drops all entries and then
\* tears every Player down exactly once, in the state it was in; nothing
\* else changes, and remove_player for a bot without Player changes nothing.
C17_StoppedDroppedThenReleased ==
    /\ \A i \in Idx :
         LET S == remove_player(Machine, i)
         IN  IF Has(players, i)
             THEN /\ Ok(S) /\ S.players = Del(players, i)
                  /\ S.calls = Teardown(StoppedPlayer(Get(players, i)), FALSE)
                  /\ S.recorders = recorders /\ S.recordings = recordings
                  /\ S.mgr = mgr /\ S.entity = entity
                  /\ Ok(Deleted(i)) /\ Deleted(i).players = Del(players, i)
                  /\ Deleted(i).calls = Teardown(StoppedPlayer(Get(players, i)), FALSE)
             ELSE Untouched(S)
    /\ LET S == ClearPlayers(Machine)
       IN  /\ Ok(S) /\ S.players = <<>>
           /\ S.calls = Teardowns(players)
           /\ S.recorders = recorders /\ S.recordings = recordings /\ S.mgr = mgr
    /\ \A i \in Clients :
         (Has(recorders, i) /\ Get(recorders, i).recording # None) =>
            /\ on_stop(Machine, i, TRUE).players = <<>>
            /\ on_stop(Machine, i, TRUE).calls = Teardowns(players)
C17_Witness ==
    /\ \E i \in Keys(players) :
         /\ Get(players, i).state = PlayerState_PLAYING
         /\ Get(players, i).tick = 0
         /\ Len(recordings[Get(players, i).recording]) = 2
         /\ Len(remove_player(Machine, i).calls) = 2
    /\ \E i \in Idx : ~Has(players, i)

\* The Recorders that have something to append to, and the commands a tick
\* has run on the bot of a Player.
Records(r) == r.state = RecorderState_RECORDING /\ r.recording # None
MovesOf(S, i) == { k \in CallsTo(S.calls, "run_player_move") : S.calls[k].index = i }

\* C18: in one manager tick every registered Recorder is driven once, then
\* every registered Player once: each Recording being recorded grows by one
\* Snapshot, each Playing Player runs one command, and a Player at the last
\* snapshot of a Recording that grows in this tick goes on to the one just
\* appended instead of stopping.
C18_RecordersThenPlayersOnce ==
    \A origins \in AllOrigins :
      LET S == on_tick(Machine, origins)
      IN  /\ \A k \in 1..Len(recorders) :
               Records(recorders[k]) =>
                 Grown(S.recordings[recorders[k].recording],
                       recordings[recorders[k].recording])
          /\ \A j \in 1..Len(players) :
               LET p == players[j]
               IN  p.state = PlayerState_PLAYING =>
                     /\ Cardinality(MovesOf(S, p.index)) = 1
                     /\ (/\ p.tick = Len(recordings[p.recording]) - 1
                         /\ \E k \in 1..Len(recorders) :
                              Records(recorders[k]) /\ recorders[k].recording = p.recording)
                          => /\ S.players[j].state = PlayerState_PLAYING
                             /\ S.players[j].tick = p.tick + 1

\* C19: a tick that would go through without the notification still goes
\* through when the host reports, between two of its handler calls or after
\* the last, that the player of slot i is gone: the Recorder and the Player
\* of i are removed, nothing is raised, and every other Recorder and Player
\* is driven once.
C19_MidTickNotificationSafe ==
    \A origins \in AllOrigins, i \in Idx, at \in 1..(Len(recorders) + Len(players)) :
      LET S == on_tick_notified(Machine, origins, at, i)
      IN  (entity[i] # "free" /\ Ok(on_tick(Machine, origins))) =>
            /\ Ok(S)
            /\ ~Has(S.recorders, i) /\ ~Has(S.players, i)
            /\ \A k \in 1..Len(recorders) :
                 (Records(recorders[k]) /\ recorders[k].index # i) =>
                    Grown(S.recordings[recorders[k].recording],
                          recordings[recorders[k].recording])
            /\ \A j \in 1..Len(players) :
                 (players[j].state = PlayerState_PLAYING /\ players[j].index # i) =>
                    Cardinality(MovesOf(S, players[j].index)) = 1

\* C20: every Recorder in state Recording has a Recording, and no manager
\* tick raises.
C20_RecordingHasRecording ==
    /\ \A k \in 1..Len(recorders) :
         recorders[k].state = RecorderState_RECORDING => recorders[k].recording # None
    /\ \A origins \in AllOrigins : Ok(on_tick(Machine, origins))

====
